---- MODULE Spec2Model ----
(***************************************************************************)
(* The real-time location layer of the bus-tracking dashboard:             *)
(*   - WebSocketService (services/websocketService.ts): one socket, its    *)
(*     four event handlers, the reconnect timer, send and disconnect;      *)
(*   - RealTimeProvider (context/RealTimeContext.tsx): the reported        *)
(*     connection status, the geolocation watch, the location history;     *)
(*   - MapContent (components/BusMap.tsx): the map's own history effect.   *)
(* The browser is the environment: it opens, fails and closes sockets,     *)
(* fires timers and delivers positions and messages, one task at a time.   *)
(***************************************************************************)
EXTENDS Integers, Sequences, FiniteSets, TLC

VARIABLES
    \* ---- WebSocketService fields
    ws,                 \* this.ws: a socket id, 0 for null
    sock,               \* every WebSocket the service created and the browser still drives
    reconnectAttempts,  \* this.reconnectAttempts
    reconnectTimeout,   \* this.reconnectTimeout: a timer id, 0 for null
    isConnecting,       \* this.isConnecting
    employeeEmail,      \* this.employeeEmail
    messageHandlers,    \* this.messageHandlers: the subscribed handlers, in subscription order
    statusHandlers,     \* this.statusHandlers
    \* ---- the browser's timer queue
    timers,             \* pending setTimeout callbacks: records [id, delay]
    \* ---- RealTimeProvider state
    connectionStatus,   \* the last ConnectionStatus handed to the status handlers
    providerEmail,      \* the provider's employeeEmail state
    currentLocation,    \* the provider's currentLocation state (NoLocation for null)
    isLocationTracking,
    showLocationHistory,
    watchIdRef,         \* watchIdRef.current, 0 for null
    watches,            \* the geolocation watches registered: records [id, show]
    locationHistoryRef, \* the provider's history map: entity id -> samples
    \* ---- MapContent state
    mapHistoryRef,      \* the map's own history map: entity id -> samples
    effectDeps,         \* the [showLocationHistory, currentLocation] the history effect last ran for
    \* ---- the clock and the observations of the last step
    clock,              \* logical time: the timestamp of the next sample or message
    emitted,            \* the statuses updateStatus handed out during the last step
    transmitted,        \* the messages handed to WebSocket.send during the last step
    scheduled,          \* the delays passed to setTimeout during the last step
    raised,             \* an exception escaped a handler or a send during the last step
    invoked,            \* the handler calls of the last step: records [handler, event]
    acts,               \* per handler, the handler it unsubscribes the next time it is called
    \* ---- the polling components (MapContent of the polling map, BusMapTest, BusListTab)
    polled,             \* per component, its state of polled positions: bus id -> position
    fetchError,         \* BusMapTest's error state is set
    inflight,           \* per component, the fetches started and not yet settled
    interval,           \* per component, its setInterval is registered
    stats,              \* what the last render of RealTimeBusStats produced
    \* ---- the maps' auto-fit
    buses,              \* the buses prop of the map: the visible buses, in order
    viewport,           \* the map's viewport
    framed,             \* the positions the last auto-fit run handed to the map
    fitBy,              \* the map variant that is mounted ("none" before)
    fitDeps,            \* the dependencies the auto-fit effect last ran with
    terminals,          \* per bus, the position of its assigned terminal (Absent for none)
    trail,              \* the operator's trail as last rendered by the map
    newest,             \* per polling component, while fetches are in flight: how the
                        \* most recently started one stands
    outcome,            \* how the connect() call of the last step settled, "none" if none was made
    lastOp,             \* the operation of the last step
    \* ---- history of the run
    delayLog,           \* the delays scheduled since reconnectAttempts was last 0
    uncleanRun,         \* unclean closures handled since reconnectAttempts was last 0
    sinceDisconnect,    \* disconnect() was called and connect() has not been called since
    appendedCtx,        \* the samples appended to the provider's history since it was last cleared
    appendedMap,        \* the samples appended to the map's history
    received,           \* the enhanced_location_update events delivered, per bus
    toggles,            \* how often showLocationHistory was switched
    clears              \* how often the history was cleared

svcVars == <<ws, sock, reconnectAttempts, reconnectTimeout, isConnecting, employeeEmail,
             timers, connectionStatus, providerEmail, emitted, transmitted, scheduled,
             raised, outcome, delayLog, uncleanRun, messageHandlers, statusHandlers,
             invoked, acts, polled, fetchError, inflight, interval, stats,
             buses, viewport, framed, fitBy, fitDeps, terminals, trail, newest>>
locVars == <<currentLocation, isLocationTracking, showLocationHistory, watchIdRef, watches,
             locationHistoryRef, mapHistoryRef, effectDeps, clock, appendedCtx, appendedMap,
             toggles, clears>>
vars == <<svcVars, locVars, lastOp, sinceDisconnect, received>>

(***************************************************************************)
(* Bounds of the model                                                     *)
(***************************************************************************)
MaxSockets == 2         \* sockets alive at once, under Spec
MaxTimers == 2          \* reconnect timers pending at once, under Spec
MaxUncleanRun == 2      \* unclean closures in a row, under Spec
MaxSessionSockets == 1  \* the same three, under SpecSession
MaxSessionTimers == 1
MaxSessionRun == 2
MaxBackoffSockets == 1  \* the same three, under SpecBackoff
MaxBackoffTimers == 1
MaxBackoffRun == 12
MaxClock == 52          \* positions produced, under SpecHist
MaxSetupClock == 1      \* positions during which the controls are used, under SpecHist
MaxToggles == 1         \* switches of the history display
MaxClears == 1          \* clearLocationHistory calls
MaxWatches == 1         \* geolocation watches registered at once
MaxFeedClock == 2       \* positions produced, under SpecFeed
MaxMessages == 3        \* feed messages delivered per bus
MaxLifeClock == 1       \* positions produced, under SpecLife
MaxLifeSockets == 1     \* sockets, timers and unclean closures in a row, under SpecLife
MaxLifeTimers == 1
MaxLifeRun == 1
MaxTrackWatches == 2    \* geolocation watches registered at once, under SpecTrack
MaxAttemptSockets == 1  \* sockets while the attempts are counted
MaxAttemptTimers == 1
MaxAttemptRun == 11     \* unclean closures in a row while the attempts are counted
MaxTrailClock == 12     \* positions of the operator while the trail is drawn
MaxFitClock == 3        \* positions of the operator while the maps are fitted
MaxOverlap == 2         \* fetches of one component in flight when polls overlap
MaxInflight == 1        \* fetches of one component in flight at once
MaxTrackClock == 3      \* positions produced, under SpecTrack

(***************************************************************************)
(* Program constants                                                       *)
(***************************************************************************)
maxReconnectAttempts == 10
reconnectDelay == 1000
maxDelay == 30000
HistoryCap == 50

NoEmail == "null"
Emails == {"a@x", "b@x"}
NoLocation == [lat |-> -1, lng |-> -1, seq |-> 0]
Entities == {"current_employee", "BUS-001"}

Min(a, b) == IF a <= b THEN a ELSE b
MinOf(S) == CHOOSE x \in S : \A y \in S : x <= y
MaxOf(S) == CHOOSE x \in S : \A y \in S : x >= y

\* The limits a specification runs under
ConnLimits == [sockets |-> MaxSockets, timers |-> MaxTimers, run |-> MaxUncleanRun]
SessionLimits == [sockets |-> MaxSessionSockets, timers |-> MaxSessionTimers, run |-> MaxSessionRun]
BackoffLimits == [sockets |-> MaxBackoffSockets, timers |-> MaxBackoffTimers, run |-> MaxBackoffRun]
HistLimits == [clock |-> MaxClock, setup |-> MaxSetupClock]
FeedLimits == [clock |-> MaxFeedClock, setup |-> MaxFeedClock + 1]
LifeLimits == [clock |-> MaxLifeClock, setup |-> MaxSetupClock]
TrackLimits == [clock |-> MaxTrackClock, setup |-> MaxTrackClock + 1]
TrailLimits == [clock |-> MaxTrailClock, setup |-> MaxTrailClock + 1]
FitLimits == [clock |-> MaxFitClock, setup |-> MaxFitClock + 1]
AttemptLimits == [sockets |-> MaxAttemptSockets, timers |-> MaxAttemptTimers,
                  run |-> MaxAttemptRun]
LifeConnLimits == [sockets |-> MaxLifeSockets, timers |-> MaxLifeTimers, run |-> MaxLifeRun]
SocketIds == 1 .. MaxOf({MaxSockets, MaxSessionSockets, MaxBackoffSockets, MaxLifeSockets,
                           MaxAttemptSockets})

(***************************************************************************)
(* The state of the service, of its subscribers and of the polling         *)
(* components as one record, so that a handler is a function from the      *)
(* state before it to the state after it and handlers compose in the order *)
(* the code calls them.                                                    *)
(***************************************************************************)
Cur ==
    [ws |-> ws, sock |-> sock, reconnectAttempts |-> reconnectAttempts,
     reconnectTimeout |-> reconnectTimeout, isConnecting |-> isConnecting,
     employeeEmail |-> employeeEmail, timers |-> timers,
     connectionStatus |-> connectionStatus, providerEmail |-> providerEmail,
     emitted |-> emitted, transmitted |-> transmitted, scheduled |-> scheduled,
     raised |-> raised, outcome |-> outcome, delayLog |-> delayLog,
     uncleanRun |-> uncleanRun, messageHandlers |-> messageHandlers,
     statusHandlers |-> statusHandlers, invoked |-> invoked, acts |-> acts,
     polled |-> polled, fetchError |-> fetchError, inflight |-> inflight,
     interval |-> interval, stats |-> stats, buses |-> buses, viewport |-> viewport,
     framed |-> framed, fitBy |-> fitBy, fitDeps |-> fitDeps, terminals |-> terminals,
     trail |-> trail, newest |-> newest]

Install(st) ==
    /\ ws' = st.ws
    /\ sock' = st.sock
    /\ reconnectAttempts' = st.reconnectAttempts
    /\ reconnectTimeout' = st.reconnectTimeout
    /\ isConnecting' = st.isConnecting
    /\ employeeEmail' = st.employeeEmail
    /\ timers' = st.timers
    /\ connectionStatus' = st.connectionStatus
    /\ providerEmail' = st.providerEmail
    /\ emitted' = st.emitted
    /\ transmitted' = st.transmitted
    /\ scheduled' = st.scheduled
    /\ raised' = st.raised
    /\ outcome' = st.outcome
    /\ delayLog' = st.delayLog
    /\ uncleanRun' = st.uncleanRun
    /\ messageHandlers' = st.messageHandlers
    /\ statusHandlers' = st.statusHandlers
    /\ invoked' = st.invoked
    /\ acts' = st.acts
    /\ polled' = st.polled
    /\ fetchError' = st.fetchError
    /\ inflight' = st.inflight
    /\ interval' = st.interval
    /\ stats' = st.stats
    /\ buses' = st.buses
    /\ viewport' = st.viewport
    /\ framed' = st.framed
    /\ fitBy' = st.fitBy
    /\ fitDeps' = st.fitDeps
    /\ terminals' = st.terminals
    /\ trail' = st.trail
    /\ newest' = st.newest

\* The state a step starts from: the observations of the previous step are gone.
Begin(st) ==
    [st EXCEPT !.emitted = <<>>, !.transmitted = <<>>, !.scheduled = <<>>,
               !.raised = FALSE, !.outcome = "none", !.invoked = <<>>]

(***************************************************************************)
(* WebSocket objects. A socket whose close event has been delivered gets   *)
(* no further event; its slot is free for the next new WebSocket(url).     *)
(***************************************************************************)
NoSocket == [readyState |-> "NONE", email |-> NoEmail, opened |-> FALSE, manual |-> FALSE]
ClosedSocket == [readyState |-> "CLOSED", email |-> NoEmail, opened |-> FALSE, manual |-> FALSE]

Live(st, s) == st.sock[s].readyState \in {"CONNECTING", "OPEN", "CLOSING"}
FreeSockets(st, L) == {s \in 1 .. L.sockets : ~Live(st, s)}

\* this.ws?.readyState === WebSocket.OPEN
isConnectedIn(st) == st.ws # 0 /\ st.sock[st.ws].readyState = "OPEN"

Msg(text, delay, attempt) == [text |-> text, delay |-> delay, attempt |-> attempt]

\* WebSocket.send: throws InvalidStateError on a socket that is still connecting,
\* transmits on an open one, silently drops on a closing or closed one.
WsSend(st, s, m) ==
    IF st.sock[s].readyState = "CONNECTING" THEN [st EXCEPT !.raised = TRUE]
    ELSE IF st.sock[s].readyState = "OPEN"
         THEN [st EXCEPT !.transmitted = Append(@, [sock |-> s, type |-> m.type, email |-> m.email])]
         ELSE st

\* The subscribers: the provider's listener effect and two more
Provider == "provider"
Handlers == {Provider, "h1", "h2"}
NoHandler == "none"

Range(s) == {s[i] : i \in 1 .. Len(s)}

\* The unsubscribe function onMessage / onStatusChange returned for handler h:
\* indexOf(h), then splice(index, 1) if it was found
unsubscribe(list, h) ==
    IF h \notin Range(list) THEN list
    ELSE LET index == MinOf({i \in 1 .. Len(list) : list[i] = h})
         IN [i \in 1 .. Len(list) - 1 |-> IF i < index THEN list[i] ELSE list[i + 1]]

\* Array.prototype.forEach over the live array: the indices 0 .. len-1 of the
\* length at the start, each visited only if the array still has it. A handler
\* that is called carries out its act. r is [handlers, acts, called].
RECURSIVE forEachFrom(_, _, _)
forEachFrom(r, k, len) ==
    IF k > len THEN r
    ELSE IF k > Len(r.handlers) THEN forEachFrom(r, k + 1, len)
    ELSE LET h == r.handlers[k]
         IN forEachFrom([handlers |-> unsubscribe(r.handlers, r.acts[h]),
                         acts |-> [r.acts EXCEPT ![h] = NoHandler],
                         called |-> Append(r.called, h)],
                        k + 1, len)

forEach(list, a) == forEachFrom([handlers |-> list, acts |-> a, called |-> <<>>], 1, Len(list))

Calls(called, event) == [i \in 1 .. Len(called) |-> [handler |-> called[i], event |-> event]]

\* updateStatus: the status goes to every status handler; the provider's
\* handler, handleStatusChange, stores it.
updateStatus(st, status, message) ==
    LET cs == [status |-> status, message |-> message,
               reconnectAttempts |-> st.reconnectAttempts]
        r == forEach(st.statusHandlers, st.acts)
    IN [st EXCEPT !.connectionStatus = IF Provider \in Range(r.called) THEN cs ELSE @,
                  !.emitted = Append(@, cs),
                  !.statusHandlers = r.handlers,
                  !.acts = r.acts,
                  !.invoked = @ \o Calls(r.called, Len(st.emitted) + 1)]

sendEmployeeConnection(st, email) ==
    IF isConnectedIn(st)
    THEN WsSend(st, st.ws, [type |-> "employee_connected", email |-> email])
    ELSE st

\* A variant of send that hands the message to whatever socket is held
sendWhenHeld(st, m) ==
    IF st.ws # 0 THEN WsSend(st, st.ws, m) ELSE st

send(st, m) ==
    IF isConnectedIn(st) THEN WsSend(st, st.ws, m) ELSE st

sendLocationUpdate(st) ==
    IF ~isConnectedIn(st) THEN st
    ELSE send(st, [type |-> "location_update", email |-> NoEmail])

\* A variant of BackoffDelay without the 30 s ceiling
BackoffDelayUncapped(attempt) == reconnectDelay * 2 ^ (attempt - 1)

\* Math.min(this.reconnectDelay * Math.pow(2, this.reconnectAttempts - 1), 30000)
BackoffDelay(attempt) == Min(reconnectDelay * 2 ^ (attempt - 1), maxDelay)

\* Math.round(delay / 1000)
RoundSeconds(delay) == (delay + 500) \div 1000

FreeTimerIds(st, L) == (1 .. L.timers) \ {t.id : t \in st.timers}

\* A variant of handleReconnection without the limit of attempts
handleReconnectionUnlimited(st, t) ==
    LET n == st.reconnectAttempts + 1
        delay == BackoffDelay(n)
        st1 == [st EXCEPT !.reconnectAttempts = n]
        st2 == updateStatus(st1, "disconnected",
                            Msg("Connection lost. Reconnecting", RoundSeconds(delay), n))
    IN [st2 EXCEPT !.timers = @ \cup {[id |-> t, delay |-> delay]},
                   !.reconnectTimeout = t,
                   !.scheduled = Append(@, delay),
                   !.delayLog = Append(@, delay)]

\* `t` is the handle setTimeout returns
handleReconnection(st, t) ==
    IF st.reconnectAttempts >= maxReconnectAttempts
    THEN updateStatus(st, "error", Msg("Max reconnection attempts reached", 0, 0))
    ELSE LET n == st.reconnectAttempts + 1
             delay == BackoffDelay(n)
             st1 == [st EXCEPT !.reconnectAttempts = n]
             st2 == updateStatus(st1, "disconnected",
                                 Msg("Connection lost. Reconnecting", RoundSeconds(delay), n))
         IN [st2 EXCEPT !.timers = @ \cup {[id |-> t, delay |-> delay]},
                        !.reconnectTimeout = t,
                        !.scheduled = Append(@, delay),
                        !.delayLog = Append(@, delay)]

\* connect(employeeEmail): the promise executor. `manual` tells whose promise it is:
\* the provider's connectEmployee awaits it and then stores the email, the
\* reconnect timer only catches its rejection. `slot` is the new socket.
\* new WebSocket(url) throws only on a url that does not parse; the url is the
\* constant 'ws://localhost:3001', so the catch branch is never taken.
connect(st, email, manual, slot) ==
    IF isConnectedIn(st)
    THEN [st EXCEPT !.outcome = "resolved",
                    !.providerEmail = IF manual THEN email ELSE @]
    ELSE IF st.isConnecting
    THEN [st EXCEPT !.outcome = "rejected"]
    ELSE LET st1 == [st EXCEPT !.employeeEmail = email, !.isConnecting = TRUE]
             st2 == updateStatus(st1, "connecting", Msg("Connecting to WebSocket server...", 0, 0))
         IN [st2 EXCEPT !.ws = slot,
                        !.sock[slot] = [readyState |-> "CONNECTING", email |-> email,
                                        opened |-> FALSE, manual |-> manual],
                        !.outcome = "pending"]

\* ws.onopen of socket s, with the email and the resolve of the call that made s
onopen(st, s) ==
    LET email == st.sock[s].email
        st1 == [st EXCEPT !.sock[s].readyState = "OPEN", !.sock[s].opened = TRUE,
                          !.isConnecting = FALSE, !.reconnectAttempts = 0,
                          !.delayLog = <<>>, !.uncleanRun = 0]
        st2 == updateStatus(st1, "connected", Msg("Connected to WebSocket server", 0, 0))
        st3 == sendEmployeeConnection(st2, email)
    IN [st3 EXCEPT !.providerEmail = IF st.sock[s].manual THEN email ELSE @]

\* A variant of onerror that reports nothing
onerrorSilent(st, s) == [st EXCEPT !.isConnecting = FALSE]

\* ws.onerror of socket s
onerror(st, s) ==
    updateStatus([st EXCEPT !.isConnecting = FALSE], "error",
                 Msg("WebSocket connection error", 0, 0))

\* ws.onclose of socket s
onclose(st, s, wasClean, t) ==
    LET st1 == [st EXCEPT !.isConnecting = FALSE, !.sock[s] = ClosedSocket]
    IN IF ~wasClean
       THEN handleReconnection([st1 EXCEPT !.uncleanRun = @ + 1], t)
       ELSE updateStatus(st1, "disconnected", Msg("Connection closed", 0, 0))

\* WebSocket.close(1000, reason): readyState becomes CLOSING at once, the close
\* event follows in a later task.
WsClose(st, s) ==
    IF Live(st, s) THEN [st EXCEPT !.sock[s].readyState = "CLOSING"] ELSE st

\* A variant of disconnect that closes the socket and keeps holding it
disconnectKeepsSocket(st) ==
    LET st1 == IF st.reconnectTimeout # 0
               THEN [st EXCEPT !.timers = {t \in @ : t.id # st.reconnectTimeout},
                               !.reconnectTimeout = 0]
               ELSE st
        st2 == IF st1.ws # 0 THEN WsClose(st1, st1.ws) ELSE st1
        st3 == [st2 EXCEPT !.employeeEmail = NoEmail]
    IN updateStatus(st3, "disconnected", Msg("Disconnected from WebSocket server", 0, 0))

disconnect(st) ==
    LET st1 == IF st.reconnectTimeout # 0
               THEN [st EXCEPT !.timers = {t \in @ : t.id # st.reconnectTimeout},
                               !.reconnectTimeout = 0]
               ELSE st
        st2 == IF st1.ws # 0 THEN [WsClose(st1, st1.ws) EXCEPT !.ws = 0] ELSE st1
        st3 == [st2 EXCEPT !.employeeEmail = NoEmail]
    IN updateStatus(st3, "disconnected", Msg("Disconnected from WebSocket server", 0, 0))

\* the setTimeout callback of handleReconnection
reconnectTimer(st, slot) ==
    IF st.employeeEmail # NoEmail
    THEN connect(st, st.employeeEmail, FALSE, slot)
    ELSE st

(***************************************************************************)
(* The location history: push, then splice(0, length - 50).                *)
(***************************************************************************)
\* Array.prototype.splice(start, count) on a 0-based array, the removed part dropped
splice(h, start, count) ==
    [i \in 1 .. (Len(h) - Min(count, Len(h) - start)) |->
        IF i <= start THEN h[i] ELSE h[i + Min(count, Len(h) - start)]]

\* A variant of pushSample that evicts the newest entries instead of the oldest
pushSampleKeepsOldest(h, sample) ==
    LET h1 == Append(h, sample)
    IN IF Len(h1) > HistoryCap THEN splice(h1, HistoryCap, Len(h1) - HistoryCap) ELSE h1

pushSample(h, sample) ==
    LET h1 == Append(h, sample)
    IN IF Len(h1) > HistoryCap THEN splice(h1, 0, Len(h1) - HistoryCap) ELSE h1

\* The device moves along a fixed path, as the simulation of BusMapTest does
\* (route0.path[idx % route0.path.length]); the point reached at time c.
PathLat(c) == c % 3
PathLng(c) == (2 * c) % 5

Location(c) == [lat |-> PathLat(c), lng |-> PathLng(c), seq |-> c]
Sample(loc, now) == [lat |-> loc.lat, lng |-> loc.lng, timestamp |-> now]

(***************************************************************************)
(* Polling of /api/admin/locations. Three components poll, each into a     *)
(* state of its own, named here as in the source: realTimeBusLocations     *)
(* (MapContent of the polling map), buses (BusMapTest), realTimeLocations  *)
(* (BusListTab, which fetches on mount and on a click, without interval).  *)
(***************************************************************************)
Pollers == {"realTimeBusLocations", "buses", "realTimeLocations"}
FleetIds == {"BUS-001", "BUS-002"}

\* No entry for a bus / no position
Absent == [lat |-> -1, lng |-> -1]
Origin == [lat |-> 0, lng |-> 0]
PollPositions == {Origin, [lat |-> 14, lng |-> 121]}

\* What a fetch can settle with: an OK response with its body, a non-OK
\* response, a rejection (network error)
Responses ==
    {[kind |-> "ok", data |-> d] : d \in [FleetIds -> PollPositions \cup {Absent}]}
        \cup {[kind |-> k, data |-> [b \in FleetIds |-> Absent]] : k \in {"notOk", "networkError"}}

\* The responses of an endpoint that knows one bus
OneBusResponses == {resp \in Responses : resp.data["BUS-002"] = Absent}

\* No fetch of the component is in flight
NoFetch == "none"

\* A variant of fetchRealTimeLocations that empties the state when the poll fails
fetchRealTimeLocationsClears(st, v, resp) ==
    IF resp.kind = "ok" THEN [st EXCEPT !.polled[v] = resp.data]
    ELSE [st EXCEPT !.polled[v] = [b \in FleetIds |-> Absent]]

\* fetchRealTimeLocations, from the await on: if (response.ok) the state is
\* replaced by the body's positions; a rejection is caught and logged
fetchRealTimeLocations(st, v, resp) ==
    IF resp.kind = "ok" THEN [st EXCEPT !.polled[v] = resp.data] ELSE st

\* fetchBusLocations of BusMapTest, from the await on: a non-OK response is
\* thrown, and the catch sets the error state
fetchBusLocations(st, resp) ==
    IF resp.kind = "ok" THEN [st EXCEPT !.polled["buses"] = resp.data]
    ELSE [st EXCEPT !.fetchError = TRUE]

(***************************************************************************)
(* Auto-fit. Three map components have an auto-fit effect: MapContent of   *)
(* the push map (BusMap.tsx:73-114), MapContent of the simple map          *)
(* (BusMap.tsx:424-448) and MapContent of the polling map                  *)
(* (part_001:182-205). Each computes a list of positions and calls         *)
(* map.setView(position, 15), map.fitBounds(positions) or neither.         *)
(***************************************************************************)
MapVariants == {"push", "simple", "polling"}

\* The current_location a bus of the buses prop can carry (Absent for none)
StoredPositions == {Origin, [lat |-> 0, lng |-> 121], [lat |-> 14, lng |-> 121]}
BusList ==
    {<<>>}
      \cup {<<[id |-> "BUS-001", current_location |-> p]>> : p \in StoredPositions \cup {Absent}}
      \cup {<<[id |-> "BUS-001", current_location |-> p],
              [id |-> "BUS-002", current_location |-> q]>> :
                p \in StoredPositions \cup {Absent}, q \in StoredPositions \cup {Absent}}

Point(p) == [lat |-> p.lat, lng |-> p.lng]

\* lat !== 0 && lng !== 0
NonZero(p) == p.lat # 0 /\ p.lng # 0

\* The viewport the MapContainer starts with, and the viewport after
\* map.setView(center, zoom) and after map.fitBounds(latLngs): the smallest
\* box that holds every position of latLngs
InitialViewport == [kind |-> "initial", south |-> 0, west |-> 0, north |-> 0, east |-> 0, zoom |-> 0]
setView(center, zoom) ==
    [kind |-> "view", south |-> center.lat, west |-> center.lng, north |-> center.lat,
     east |-> center.lng, zoom |-> zoom]
fitBounds(latLngs) ==
    [kind |-> "bounds",
     south |-> MinOf({latLngs[i].lat : i \in 1 .. Len(latLngs)}),
     west |-> MinOf({latLngs[i].lng : i \in 1 .. Len(latLngs)}),
     north |-> MaxOf({latLngs[i].lat : i \in 1 .. Len(latLngs)}),
     east |-> MaxOf({latLngs[i].lng : i \in 1 .. Len(latLngs)}),
     zoom |-> 0]

\* What an auto-fit run does: the viewport after it and the positions it framed
Framing(vp, latLngs) ==
    [viewport |-> IF Len(latLngs) = 1 THEN setView(latLngs[1], 15)
                  ELSE IF Len(latLngs) > 1 THEN fitBounds(latLngs) ELSE vp,
     framed |-> latLngs]

\* The auto-fit effect of the push map: the buses and, when set, the
\* operator's position as one more entry; the entries with a position whose
\* lat and lng are both non-zero; one: setView(.., 15); more: fitBounds
autoFitPush(vp, bs, cur) ==
    LET allBuses == [i \in 1 .. Len(bs) |-> bs[i].current_location]
                        \o (IF cur # NoLocation THEN <<Point(cur)>> ELSE <<>>)
        validBuses == SelectSeq(allBuses, LAMBDA p : p # Absent /\ NonZero(p))
    IN IF Len(allBuses) > 0 THEN Framing(vp, SelectSeq(validBuses, NonZero))
       ELSE Framing(vp, <<>>)

\* The auto-fit effect of the simple map: only when some bus has a position
autoFitSimple(vp, bs) ==
    LET located == SelectSeq([i \in 1 .. Len(bs) |-> bs[i].current_location],
                             LAMBDA p : p # Absent)
    IN IF Len(bs) > 0 /\ Len(located) > 0 THEN Framing(vp, SelectSeq(located, NonZero))
       ELSE Framing(vp, <<>>)

RECURSIVE busLatLngs(_, _, _)
\* The loop over the buses of the polling map, from bus k on: the polled
\* position when there is one, else the stored one when both its coordinates
\* are non-zero
busLatLngs(bs, realTime, k) ==
    IF k > Len(bs) THEN <<>>
    ELSE LET realTimeLoc == realTime[bs[k].id]
             stored == bs[k].current_location
         IN (IF realTimeLoc # Absent THEN <<realTimeLoc>>
             ELSE IF stored # Absent /\ NonZero(stored) THEN <<stored>>
             ELSE <<>>) \o busLatLngs(bs, realTime, k + 1)

\* The auto-fit effect of the polling map
autoFitPolling(vp, bs, realTime, cur) ==
    Framing(vp, busLatLngs(bs, realTime, 1)
                  \o (IF cur # NoLocation /\ NonZero(cur) THEN <<Point(cur)>> ELSE <<>>))

(***************************************************************************)
(* The trail. LocationTrail renders the locations it is given as Polyline  *)
(* segments; opacities are in hundredths. MapContent renders it for the    *)
(* operator from its own history, with opacity 0.8 and weight 4, while the *)
(* history display is on and a position is known.                          *)
(***************************************************************************)
TrailOpacity == 80
TrailWeight == 4

Segment(positions, opacity, weight, dashed) ==
    [positions |-> positions, opacity |-> opacity, weight |-> weight, dashed |-> dashed]

\* positions.slice(from) for 0 <= from <= length, 1-based result
SliceFrom(s, from) == [i \in 1 .. Len(s) - from |-> s[from + i]]
\* positions.slice(0, to)
SliceTo(s, to) == [i \in 1 .. to |-> s[i]]

\* A variant of LocationTrail that draws a long trail as one segment too
LocationTrailUniform(locations, opacity, weight) ==
    IF Len(locations) < 2 THEN <<>>
    ELSE <<Segment([i \in 1 .. Len(locations) |-> Point(locations[i])], opacity, weight, FALSE)>>

\* LocationTrail: nothing below 2 locations; from 10 on the last
\* floor(length * 0.7) positions at the given opacity and the ones before at
\* opacity * 0.3, each drawn when it has 2 positions; else one Polyline
LocationTrail(locations, opacity, weight) ==
    LET positions == [i \in 1 .. Len(locations) |-> Point(locations[i])]
        recentCount == (Len(locations) * 7) \div 10
        recentPositions == SliceFrom(positions, Len(positions) - recentCount)
        olderPositions == SliceTo(positions, Len(positions) - recentCount)
    IN IF Len(locations) < 2 THEN <<>>
       ELSE IF Len(locations) >= 10
            THEN (IF Len(olderPositions) >= 2
                  THEN <<Segment(olderPositions, (opacity * 3) \div 10, weight - 1, TRUE)>>
                  ELSE <<>>)
                 \o (IF Len(recentPositions) >= 2
                     THEN <<Segment(recentPositions, opacity, weight, FALSE)>>
                     ELSE <<>>)
       ELSE <<Segment(positions, opacity, weight, FALSE)>>

\* What MapContent renders for the operator's trail: the locations handed to
\* LocationTrail (none when it is not rendered) and the segments drawn
NoTrail == [locations |-> <<>>, segments |-> <<>>]
renderTrail(show, cur, history) ==
    IF show /\ cur # NoLocation /\ Len(history) >= 2
    THEN [locations |-> history, segments |-> LocationTrail(history, TrailOpacity, TrailWeight)]
    ELSE NoTrail

(***************************************************************************)
(* Bus markers. Each map renders one marker per bus from the position it   *)
(* resolves for it; the polling map and the bus list label a position      *)
(* "Real-time". A marker is [source, pos, dlat, dlng, badge]: the source   *)
(* the position was taken from, the position (Absent for the placeholder,  *)
(* which lies at the map centre plus jitterRadius * (dlat, dlng)) and      *)
(* whether the Real-time label is shown.                                   *)
(***************************************************************************)
TerminalPositions == {[lat |-> 13, lng |-> 122]}

Marker(source, pos, badge) ==
    [source |-> source, pos |-> pos, dlat |-> 0, dlng |-> 0, badge |-> badge]

\* (cos, sin) of (idx * 2 * Math.PI) / Math.max(total, 1), for the angles that
\* are multiples of a quarter turn
Circle(idx, total) ==
    CASE 4 * idx = 0 -> [dlat |-> 1, dlng |-> 0]
      [] 4 * idx = total -> [dlat |-> 0, dlng |-> 1]
      [] 4 * idx = 2 * total -> [dlat |-> -1, dlng |-> 0]
      [] 4 * idx = 3 * total -> [dlat |-> 0, dlng |-> -1]

\* A variant of busMarkerPolling that shows the badge on every located bus
busMarkerPollingBadgeAll(bus, idx, total, realTime, term) ==
    LET realTimeLoc == realTime[bus.id]
        stored == bus.current_location
    IN IF realTimeLoc # Absent THEN Marker("live", realTimeLoc, TRUE)
       ELSE IF stored # Absent THEN Marker("stored", stored, TRUE)
       ELSE IF term[bus.id] # Absent THEN Marker("terminal", term[bus.id], TRUE)
       ELSE [source |-> "placeholder", pos |-> Absent, dlat |-> Circle(idx, total).dlat,
             dlng |-> Circle(idx, total).dlng, badge |-> FALSE]

\* The marker of the polling map for the bus at index idx of total: the polled
\* position when there is one, else the stored current_location when it has
\* numbers, else the terminal's coordinates, else a place on the circle
\* around the map centre; the Real-time label is shown when realTimeLoc is set
busMarkerPolling(bus, idx, total, realTime, term) ==
    LET realTimeLoc == realTime[bus.id]
        stored == bus.current_location
    IN IF realTimeLoc # Absent THEN Marker("live", realTimeLoc, TRUE)
       ELSE IF stored # Absent THEN Marker("stored", stored, FALSE)
       ELSE IF term[bus.id] # Absent THEN Marker("terminal", term[bus.id], FALSE)
       ELSE [source |-> "placeholder", pos |-> Absent, dlat |-> Circle(idx, total).dlat,
             dlng |-> Circle(idx, total).dlng, badge |-> FALSE]

\* The marker of the push map: the stored current_location when it has
\* numbers, else the terminal's position, else no marker (return null)
busMarkerPush(bus, term) ==
    LET stored == bus.current_location
    IN IF stored # Absent THEN Marker("stored", stored, FALSE)
       ELSE IF term[bus.id] # Absent THEN Marker("terminal", term[bus.id], FALSE)
       ELSE Marker("none", Absent, FALSE)

\* The marker of the simple map: buses.filter(bus => bus.current_location)
busMarkerSimple(bus) ==
    IF bus.current_location # Absent THEN Marker("stored", bus.current_location, FALSE)
    ELSE Marker("none", Absent, FALSE)

\* getBusLocation of the bus list: the polled location with isRealTime true,
\* else the stored one with isRealTime false, else null
getBusLocation(bus, realTimeLocations) ==
    IF realTimeLocations[bus.id] # Absent THEN Marker("live", realTimeLocations[bus.id], TRUE)
    ELSE IF bus.current_location # Absent THEN Marker("stored", bus.current_location, FALSE)
    ELSE Marker("none", Absent, FALSE)

(***************************************************************************)
(* Initial state: the service constructed, the provider and the map        *)
(* mounted (their effects have run once, the handlers are subscribed).     *)
(***************************************************************************)
Init ==
    /\ ws = 0
    /\ sock = [s \in SocketIds |-> NoSocket]
    /\ reconnectAttempts = 0
    /\ reconnectTimeout = 0
    /\ isConnecting = FALSE
    /\ employeeEmail = NoEmail
    /\ timers = {}
    /\ connectionStatus = [status |-> "disconnected", message |-> Msg("Not connected", 0, 0),
                           reconnectAttempts |-> 0]
    /\ providerEmail = NoEmail
    /\ currentLocation = NoLocation
    /\ isLocationTracking = FALSE
    /\ showLocationHistory = FALSE
    /\ watchIdRef = 0
    /\ watches = {}
    /\ locationHistoryRef = [e \in Entities |-> <<>>]
    /\ mapHistoryRef = [e \in Entities |-> <<>>]
    /\ effectDeps = <<FALSE, NoLocation>>
    /\ clock = 0
    /\ emitted = <<>>
    /\ transmitted = <<>>
    /\ scheduled = <<>>
    /\ raised = FALSE
    /\ outcome = "none"
    /\ lastOp = "init"
    /\ delayLog = <<>>
    /\ uncleanRun = 0
    /\ messageHandlers = <<Provider>>
    /\ statusHandlers = <<Provider>>
    /\ invoked = <<>>
    /\ acts = [h \in Handlers |-> NoHandler]
    /\ polled = [v \in Pollers |-> [b \in FleetIds |-> Absent]]
    /\ fetchError = FALSE
    /\ inflight = [v \in Pollers |-> 0]
    /\ interval = [v \in Pollers |-> v # "realTimeLocations"]
    /\ stats = [kind |-> "unmounted", active |-> {}]
    /\ buses = <<>>
    /\ viewport = InitialViewport
    /\ framed = <<>>
    /\ fitBy = "none"
    /\ fitDeps = <<>>
    /\ terminals = [b \in FleetIds |-> Absent]
    /\ trail = NoTrail
    /\ newest = [v \in Pollers |-> NoFetch]
    /\ sinceDisconnect = FALSE
    /\ appendedCtx = <<>>
    /\ appendedMap = <<>>
    /\ received = [e \in Entities |-> <<>>]
    /\ toggles = 0
    /\ clears = 0

(***************************************************************************)
(* Connection steps. L gives the limits of the specification: the socket   *)
(* slots, the timer handles, the unclean closures in a row.                *)
(***************************************************************************)
\* connect() would reach new WebSocket(url)
StartsAttempt(st) == ~isConnectedIn(st) /\ ~st.isConnecting

SlotFor(st, L) == IF FreeSockets(st, L) = {} THEN 0 ELSE MinOf(FreeSockets(st, L))

\* handleReconnection would call setTimeout
SchedulesRetry(st) == st.reconnectAttempts < maxReconnectAttempts

HandleFor(st, L) == IF FreeTimerIds(st, L) = {} THEN 0 ELSE MinOf(FreeTimerIds(st, L))

\* The provider's connectEmployee(e): await websocketService.connect(e); setEmployeeEmail(e)
Connect(e, L) ==
    /\ StartsAttempt(Cur) => FreeSockets(Cur, L) # {}
    /\ Install(connect(Begin(Cur), e, TRUE, SlotFor(Cur, L)))
    /\ lastOp' = "connect"
    /\ sinceDisconnect' = FALSE
    /\ UNCHANGED <<locVars, received>>

\* The browser completes the handshake of socket s
SockOpen(s) ==
    /\ sock[s].readyState = "CONNECTING"
    /\ Install(onopen(Begin(Cur), s))
    /\ lastOp' = "open"
    /\ UNCHANGED <<locVars, sinceDisconnect, received>>

\* The server starts the closing handshake of socket s: readyState is CLOSING
\* until the close event.
SockClosing(s) ==
    /\ sock[s].readyState = "OPEN"
    /\ Install([Begin(Cur) EXCEPT !.sock[s].readyState = "CLOSING"])
    /\ lastOp' = "closing"
    /\ UNCHANGED <<locVars, sinceDisconnect, received>>

\* The connection of socket s fails: the browser fires error, then close with
\* wasClean = false, in one task. A socket that never opened always ends so.
SockFail(s, L) ==
    /\ Live(Cur, s)
    /\ uncleanRun < L.run
    /\ SchedulesRetry(Cur) => FreeTimerIds(Cur, L) # {}
    /\ Install(onclose(onerror(Begin(Cur), s), s, FALSE, HandleFor(Cur, L)))
    /\ lastOp' = IF sock[s].readyState = "CONNECTING" THEN "failAttempt" ELSE "fail"
    /\ UNCHANGED <<locVars, sinceDisconnect, received>>

\* The connection of an established socket s is lost without a closing
\* handshake and without an error event: close with wasClean = false.
SockDrop(s, L) ==
    /\ Live(Cur, s) /\ sock[s].opened
    /\ uncleanRun < L.run
    /\ SchedulesRetry(Cur) => FreeTimerIds(Cur, L) # {}
    /\ Install(onclose(Begin(Cur), s, FALSE, HandleFor(Cur, L)))
    /\ lastOp' = "drop"
    /\ UNCHANGED <<locVars, sinceDisconnect, received>>

\* The closing handshake of an established socket s completes: close with
\* wasClean = true.
SockClose(s) ==
    /\ Live(Cur, s) /\ sock[s].opened
    /\ Install(onclose(Begin(Cur), s, TRUE, 0))
    /\ lastOp' = "close"
    /\ UNCHANGED <<locVars, sinceDisconnect, received>>

\* The reconnect timer t fires
TimerFire(t, L) ==
    /\ t \in timers
    /\ (employeeEmail # NoEmail /\ StartsAttempt(Cur)) => FreeSockets(Cur, L) # {}
    /\ Install(reconnectTimer([Begin(Cur) EXCEPT !.timers = @ \ {t}], SlotFor(Cur, L)))
    /\ lastOp' = "timer"
    /\ UNCHANGED <<locVars, sinceDisconnect, received>>

\* A variant of the provider's disconnect() that also empties its history
DisconnectClearsHistory ==
    /\ Install([disconnect(Begin(Cur)) EXCEPT !.providerEmail = NoEmail])
    /\ currentLocation' = NoLocation
    /\ watches' = IF watchIdRef # 0 THEN {w \in watches : w.id # watchIdRef} ELSE watches
    /\ watchIdRef' = 0
    /\ isLocationTracking' = FALSE
    /\ locationHistoryRef' = [e \in Entities |-> <<>>]
    /\ appendedCtx' = <<>>
    /\ lastOp' = "disconnect"
    /\ sinceDisconnect' = TRUE
    /\ UNCHANGED <<showLocationHistory, mapHistoryRef, effectDeps, clock,
                   appendedMap, toggles, clears, received>>

\* The provider's disconnect()
Disconnect ==
    /\ Install([disconnect(Begin(Cur)) EXCEPT !.providerEmail = NoEmail])
    /\ currentLocation' = NoLocation
    /\ watches' = IF watchIdRef # 0 THEN {w \in watches : w.id # watchIdRef} ELSE watches
    /\ watchIdRef' = 0
    /\ isLocationTracking' = FALSE
    /\ lastOp' = "disconnect"
    /\ sinceDisconnect' = TRUE
    /\ UNCHANGED <<showLocationHistory, locationHistoryRef, mapHistoryRef, effectDeps, clock,
                   appendedCtx, appendedMap, toggles, clears, received>>

\* websocketService.send(message)
Send ==
    /\ Install(send(Begin(Cur), [type |-> "event", email |-> NoEmail]))
    /\ lastOp' = "send"
    /\ UNCHANGED <<locVars, sinceDisconnect, received>>

(***************************************************************************)
(* Location steps. H gives the limits of the specification: the positions  *)
(* produced, and the positions during which the controls are used.         *)
(***************************************************************************)
\* The controls (connect, tracking, toggle, clear) are used while the first
\* positions arrive and again once the history has filled.
Controls(H) == clock < H.setup \/ clock >= HistoryCap

\* React has rendered and run the effects of the last state change: every
\* handler below runs in a task of its own, after the render of the one before.
EffectsFlushed == effectDeps = <<showLocationHistory, currentLocation>>

FreeWatchIds(W) == (1 .. W) \ {w.id : w \in watches}

\* startLocationTracking(): the watch callback closes over the
\* showLocationHistory of the render that made it.
StartLocationTracking(W) ==
    /\ EffectsFlushed
    /\ isConnectedIn(Cur) => FreeWatchIds(W) # {}
    /\ Install(Begin(Cur))
    /\ IF ~isConnectedIn(Cur)
       THEN UNCHANGED <<isLocationTracking, watchIdRef, watches>>
       ELSE /\ isLocationTracking' = TRUE
            /\ watchIdRef' = MinOf(FreeWatchIds(W))
            /\ watches' = watches \cup {[id |-> MinOf(FreeWatchIds(W)), show |-> showLocationHistory]}
    /\ lastOp' = "startTracking"
    /\ UNCHANGED <<currentLocation, showLocationHistory, locationHistoryRef, mapHistoryRef,
                   effectDeps, clock, appendedCtx, appendedMap, toggles, clears,
                   sinceDisconnect, received>>

\* stopLocationTracking()
StopLocationTracking ==
    /\ EffectsFlushed
    /\ Install(Begin(Cur))
    /\ watches' = IF watchIdRef # 0 THEN {w \in watches : w.id # watchIdRef} ELSE watches
    /\ watchIdRef' = 0
    /\ isLocationTracking' = FALSE
    /\ lastOp' = "stopTracking"
    /\ UNCHANGED <<currentLocation, showLocationHistory, locationHistoryRef, mapHistoryRef,
                   effectDeps, clock, appendedCtx, appendedMap, toggles, clears,
                   sinceDisconnect, received>>

\* The success callback of watch w: a position arrives. A watch made under
\* another showLocationHistory than the current one is a control case.
Position(w, H) ==
    /\ w \in watches
    /\ EffectsFlushed
    /\ clock < H.clock
    /\ w.show # showLocationHistory => Controls(H)
    /\ LET now == clock + 1
           loc == Location(now)
       IN /\ clock' = now
          /\ currentLocation' = loc
          /\ IF w.show
             THEN /\ locationHistoryRef' =
                        [locationHistoryRef EXCEPT !["current_employee"] = pushSample(@, Sample(loc, now))]
                  /\ appendedCtx' = Append(appendedCtx, Sample(loc, now))
             ELSE UNCHANGED <<locationHistoryRef, appendedCtx>>
    /\ Install(sendLocationUpdate(Begin(Cur)))
    /\ lastOp' = "position"
    /\ UNCHANGED <<isLocationTracking, showLocationHistory, watchIdRef, watches, mapHistoryRef,
                   effectDeps, appendedMap, toggles, clears, sinceDisconnect, received>>

\* The error callback of watch w
PositionError(w) ==
    /\ w \in watches
    /\ EffectsFlushed
    /\ Install(Begin(Cur))
    /\ isLocationTracking' = FALSE
    /\ lastOp' = "positionError"
    /\ UNCHANGED <<currentLocation, showLocationHistory, watchIdRef, watches, locationHistoryRef,
                   mapHistoryRef, effectDeps, clock, appendedCtx, appendedMap, toggles, clears,
                   sinceDisconnect, received>>

\* simulateLocation(loc)
SimulateLocation(H) ==
    /\ EffectsFlushed
    /\ clock < H.clock
    /\ LET now == clock + 1
           loc == Location(now)
       IN /\ clock' = now
          /\ currentLocation' = loc
          /\ IF showLocationHistory
             THEN /\ locationHistoryRef' =
                        [locationHistoryRef EXCEPT !["current_employee"] = pushSample(@, Sample(loc, now))]
                  /\ appendedCtx' = Append(appendedCtx, Sample(loc, now))
             ELSE UNCHANGED <<locationHistoryRef, appendedCtx>>
    /\ Install(Begin(Cur))
    /\ lastOp' = "simulate"
    /\ UNCHANGED <<isLocationTracking, showLocationHistory, watchIdRef, watches, mapHistoryRef,
                   effectDeps, appendedMap, toggles, clears, sinceDisconnect, received>>

\* setShowLocationHistory(!showLocationHistory)
ToggleHistory ==
    /\ EffectsFlushed
    /\ toggles < MaxToggles
    /\ toggles' = toggles + 1
    /\ showLocationHistory' = ~showLocationHistory
    /\ Install(Begin(Cur))
    /\ lastOp' = "toggle"
    /\ UNCHANGED <<currentLocation, isLocationTracking, watchIdRef, watches, locationHistoryRef,
                   mapHistoryRef, effectDeps, clock, appendedCtx, appendedMap, clears,
                   sinceDisconnect, received>>

\* clearLocationHistory()
ClearLocationHistory ==
    /\ EffectsFlushed
    /\ clears < MaxClears
    /\ clears' = clears + 1
    /\ locationHistoryRef' = [e \in Entities |-> <<>>]
    /\ appendedCtx' = <<>>
    /\ Install(Begin(Cur))
    /\ lastOp' = "clear"
    /\ UNCHANGED <<currentLocation, isLocationTracking, showLocationHistory, watchIdRef, watches,
                   mapHistoryRef, effectDeps, clock, appendedMap, toggles, sinceDisconnect, received>>

\* MapContent's history effect: React runs it after a render in which
\* showLocationHistory or currentLocation differ from the last run's. The
\* render comes first and draws the trail from the history as it is before
\* the effect appends.
MapHistoryEffect ==
    /\ ~EffectsFlushed
    /\ effectDeps' = <<showLocationHistory, currentLocation>>
    /\ IF showLocationHistory /\ currentLocation # NoLocation
       THEN /\ mapHistoryRef' =
                  [mapHistoryRef EXCEPT !["current_employee"] = pushSample(@, Sample(currentLocation, clock))]
            /\ appendedMap' = Append(appendedMap, Sample(currentLocation, clock))
       ELSE UNCHANGED <<mapHistoryRef, appendedMap>>
    /\ Install([Cur EXCEPT !.trail = renderTrail(showLocationHistory, currentLocation,
                                                 mapHistoryRef["current_employee"])])
    /\ UNCHANGED <<currentLocation, isLocationTracking, showLocationHistory, watchIdRef, watches,
                   locationHistoryRef, clock, appendedCtx, toggles, clears, sinceDisconnect,
                   received, lastOp>>

(***************************************************************************)
(* The feed: a message arrives on socket s. JSON.parse throws on a         *)
(* malformed one, which is logged and dropped; a parsed one goes to the    *)
(* provider's handleWebSocketMessage, which logs it.                       *)
(***************************************************************************)
MessageTypes == {"enhanced_location_update", "pong", "malformed"}
Buses == {"BUS-001"}

\* The location an enhanced_location_update for a bus carries: its n-th report
BusSample(n) == [lat |-> 14 + n, lng |-> 120 + n, timestamp |-> n]

\* handleWebSocketMessage(message): every case of the switch logs and breaks
handleWebSocketMessage(hist, m) == hist

\* ws.onmessage: JSON.parse, then messageHandlers.forEach; a parse error is
\* caught and logged
onmessage(st, type) ==
    IF type = "malformed" THEN st
    ELSE LET r == forEach(st.messageHandlers, st.acts)
         IN [st EXCEPT !.messageHandlers = r.handlers,
                       !.acts = r.acts,
                       !.invoked = @ \o Calls(r.called, 0)]

\* onMessage(handler) / onStatusChange(handler): push
onMessage(st, h) == [st EXCEPT !.messageHandlers = Append(@, h)]
onStatusChange(st, h) == [st EXCEPT !.statusHandlers = Append(@, h)]

\* A message arrives on socket s
OnMessage(s, type, bus) ==
    /\ sock[s].readyState = "OPEN"
    /\ EffectsFlushed
    /\ Len(received[bus]) < MaxMessages
    /\ locationHistoryRef' =
          IF Provider \notin {c.handler : c \in Range(onmessage(Begin(Cur), type).invoked)}
          THEN locationHistoryRef
          ELSE handleWebSocketMessage(locationHistoryRef,
                                      [type |-> type, bus |-> bus,
                                       sample |-> BusSample(Len(received[bus]) + 1)])
    /\ received' = IF type = "enhanced_location_update"
                   THEN [received EXCEPT ![bus] = Append(@, BusSample(Len(@) + 1))]
                   ELSE received
    /\ Install(onmessage(Begin(Cur), type))
    /\ lastOp' = IF type = "malformed" THEN "malformed" ELSE "message"
    /\ UNCHANGED <<currentLocation, isLocationTracking, showLocationHistory, watchIdRef, watches,
                   mapHistoryRef, effectDeps, clock, appendedCtx, appendedMap, toggles, clears,
                   sinceDisconnect>>

\* The parent renders the map with a new buses prop
SetBuses(bs) ==
    /\ bs # buses
    /\ Install([Begin(Cur) EXCEPT !.buses = bs])
    /\ lastOp' = "buses"
    /\ UNCHANGED <<locVars, sinceDisconnect, received>>

\* The dependencies of the auto-fit effect of the mounted map
FitDeps ==
    CASE fitBy = "push" -> <<buses, currentLocation>>
      [] fitBy = "simple" -> <<buses>>
      [] fitBy = "polling" -> <<buses, polled["realTimeBusLocations"], currentLocation>>
      [] OTHER -> <<>>

\* The auto-fit effect has run since its dependencies last changed
FitFlushed == fitBy # "none" /\ fitDeps = FitDeps

\* The map of variant v is mounted
Mount(v) ==
    /\ fitBy = "none"
    /\ Install([Begin(Cur) EXCEPT !.fitBy = v])
    /\ lastOp' = "mount"
    /\ UNCHANGED <<locVars, sinceDisconnect, received>>

\* The auto-fit effect of the mounted map runs: after the first render and
\* after every render that changed one of its dependencies
AutoFit ==
    /\ fitBy # "none"
    /\ ~FitFlushed
    /\ LET r == CASE fitBy = "push" -> autoFitPush(viewport, buses, currentLocation)
                  [] fitBy = "simple" -> autoFitSimple(viewport, buses)
                  [] fitBy = "polling" -> autoFitPolling(viewport, buses,
                                                         polled["realTimeBusLocations"],
                                                         currentLocation)
       IN Install([Begin(Cur) EXCEPT !.viewport = r.viewport, !.framed = r.framed,
                                     !.fitDeps = FitDeps])
    /\ lastOp' = "autofit"
    /\ UNCHANGED <<locVars, sinceDisconnect, received>>

\* MapContent renders again for another reason (a prop or another context
\* field changed): the trail is drawn from the history as it is now
Rerender ==
    /\ EffectsFlushed
    /\ trail # renderTrail(showLocationHistory, currentLocation, mapHistoryRef["current_employee"])
    /\ Install([Begin(Cur) EXCEPT !.trail = renderTrail(showLocationHistory, currentLocation,
                                                        mapHistoryRef["current_employee"])])
    /\ lastOp' = "render"
    /\ UNCHANGED <<locVars, sinceDisconnect, received>>

\* The parent renders the map with other terminals
SetTerminals(tm) ==
    /\ tm # terminals
    /\ Install([Begin(Cur) EXCEPT !.terminals = tm])
    /\ lastOp' = "terminals"
    /\ UNCHANGED <<locVars, sinceDisconnect, received>>

\* The markers the mounted map renders, one per bus of the buses prop
Markers ==
    [i \in 1 .. Len(buses) |->
        CASE fitBy = "polling" -> busMarkerPolling(buses[i], i - 1, Len(buses),
                                                   polled["realTimeBusLocations"], terminals)
          [] fitBy = "push" -> busMarkerPush(buses[i], terminals)
          [] OTHER -> busMarkerSimple(buses[i])]

\* The locations the bus list renders, one per bus
ListLocations ==
    [i \in 1 .. Len(buses) |-> getBusLocation(buses[i], polled["realTimeLocations"])]

\* The fields of the value RealTimeProvider hands to its consumers
ContextFields ==
    {"connectionStatus", "employeeEmail", "setEmployeeEmail", "connectEmployee",
     "showLocationHistory", "setShowLocationHistory", "clearLocationHistory", "connect",
     "disconnect", "isConnected", "startLocationTracking", "stopLocationTracking",
     "isLocationTracking", "currentLocation", "simulateLocation"}

\* RealTimeBusStats: destructures totalBuses, totalPassengers,
\* totalAvailableSeats and activeBuses from useRealTime() and calls
\* activeBuses.reduce while rendering; a field the value lacks is undefined,
\* and reduce of undefined throws a TypeError. heard is what the provider has
\* kept of the buses it heard from.
RealTimeBusStats(heard) ==
    IF "activeBuses" \notin ContextFields
    THEN [kind |-> "TypeError", active |-> {}]
    ELSE [kind |-> "shown", active |-> {b \in DOMAIN heard : heard[b] # <<>>}]

\* RealTimeBusStats is rendered under the provider
RenderStats ==
    /\ Install([Begin(Cur) EXCEPT !.stats = RealTimeBusStats([b \in Buses |-> locationHistoryRef[b]])])
    /\ lastOp' = "stats"
    /\ UNCHANGED <<locVars, sinceDisconnect, received>>

\* A fetch of component v starts while fewer than M of its fetches are in
\* flight; BusMapTest first resets its error state
StartPoll(v, M) ==
    /\ inflight[v] < M
    /\ Install([Begin(Cur) EXCEPT !.inflight[v] = @ + 1,
                                  !.newest[v] = "pending",
                                  !.fetchError = IF v = "buses" THEN FALSE ELSE @])
    /\ lastOp' = "poll"
    /\ UNCHANGED <<locVars, sinceDisconnect, received>>

\* The interval of component v fires (or, for BusListTab, the refresh is
\* clicked): a fetch starts
PollTick(v) == StartPoll(v, MaxInflight)

\* A fetch of component v settles with resp: the most recently started one, or
\* one started before it
FetchSettle(v, resp) ==
    /\ inflight[v] > 0
    /\ \E isNewest \in BOOLEAN :
          /\ isNewest => newest[v] = "pending"
          /\ ~isNewest => inflight[v] > (IF newest[v] = "pending" THEN 1 ELSE 0)
          /\ Install(LET st == [Begin(Cur) EXCEPT
                                   !.inflight[v] = @ - 1,
                                   !.newest[v] = IF inflight[v] = 1 THEN NoFetch
                                                 ELSE IF ~isNewest THEN @
                                                 ELSE IF resp.kind = "ok" THEN "ok"
                                                 ELSE "failed"]
                     IN IF v = "buses" THEN fetchBusLocations(st, resp)
                        ELSE fetchRealTimeLocations(st, v, resp))
    /\ lastOp' = IF resp.kind = "ok" THEN "fetched" ELSE "fetchFailed"
    /\ UNCHANGED <<locVars, sinceDisconnect, received>>

\* The subscribers other than the provider
Listeners == Handlers \ {Provider}

\* A component subscribes handler h, a function of its own, to messages
SubscribeMessage(h) ==
    /\ h \notin Range(messageHandlers)
    /\ Install(onMessage(Begin(Cur), h))
    /\ lastOp' = "subscribe"
    /\ UNCHANGED <<locVars, sinceDisconnect, received>>

\* The same to status changes
SubscribeStatus(h) ==
    /\ h \notin Range(statusHandlers)
    /\ Install(onStatusChange(Begin(Cur), h))
    /\ lastOp' = "subscribe"
    /\ UNCHANGED <<locVars, sinceDisconnect, received>>

\* The unsubscribe function onMessage returned for h is called, outside a delivery
UnsubscribeMessage(h) ==
    /\ h \in Range(messageHandlers)
    /\ Install([Begin(Cur) EXCEPT !.messageHandlers = unsubscribe(@, h)])
    /\ lastOp' = "unsubscribe"
    /\ UNCHANGED <<locVars, sinceDisconnect, received>>

\* The unsubscribe function onStatusChange returned for h is called, outside a delivery
UnsubscribeStatus(h) ==
    /\ h \in Range(statusHandlers)
    /\ Install([Begin(Cur) EXCEPT !.statusHandlers = unsubscribe(@, h)])
    /\ lastOp' = "unsubscribe"
    /\ UNCHANGED <<locVars, sinceDisconnect, received>>

\* Handler h is one that, the next time it is called, calls the unsubscribe
\* function of handler target (itself or another listener)
Arm(h, target) ==
    /\ acts[h] = NoHandler
    /\ Install([Begin(Cur) EXCEPT !.acts[h] = target])
    /\ lastOp' = "arm"
    /\ UNCHANGED <<locVars, sinceDisconnect, received>>

(***************************************************************************)
(* Specifications                                                          *)
(***************************************************************************)
\* The connection manager under every interleaving of calls and socket events
NextConn ==
    \/ \E e \in Emails : Connect(e, ConnLimits)
    \/ \E s \in SocketIds : SockOpen(s)
    \/ \E s \in SocketIds : SockClosing(s)
    \/ \E s \in SocketIds : SockFail(s, ConnLimits)
    \/ \E s \in SocketIds : SockDrop(s, ConnLimits)
    \/ \E s \in SocketIds : SockClose(s)
    \/ \E t \in timers : TimerFire(t, ConnLimits)
    \/ Disconnect
    \/ Send

Spec == Init /\ [][NextConn]_vars

\* The same with one transport at a time
NextSession ==
    \/ \E e \in Emails : Connect(e, SessionLimits)
    \/ \E s \in SocketIds : SockOpen(s)
    \/ \E s \in SocketIds : SockClosing(s)
    \/ \E s \in SocketIds : SockFail(s, SessionLimits)
    \/ \E s \in SocketIds : SockDrop(s, SessionLimits)
    \/ \E s \in SocketIds : SockClose(s)
    \/ \E t \in timers : TimerFire(t, SessionLimits)
    \/ Disconnect
    \/ Send

SpecSession == Init /\ [][NextSession]_vars

\* One identity and a server that keeps failing: the backoff sequence to its end
NextBackoff ==
    \/ Connect("a@x", BackoffLimits)
    \/ \E s \in SocketIds : SockOpen(s)
    \/ \E s \in SocketIds : SockFail(s, BackoffLimits)
    \/ \E s \in SocketIds : SockDrop(s, BackoffLimits)
    \/ \E t \in timers : TimerFire(t, BackoffLimits)
    \/ Disconnect

SpecBackoff == Init /\ [][NextBackoff]_vars

\* The location history, filled past its capacity over a transport that stays up
NextHist ==
    \/ Controls(HistLimits) /\ Connect("a@x", SessionLimits)
    \/ Controls(HistLimits) /\ \E s \in SocketIds : SockOpen(s)
    \/ Controls(HistLimits) /\ StartLocationTracking(MaxWatches)
    \/ Controls(HistLimits) /\ StopLocationTracking
    \/ \E w \in watches : Position(w, HistLimits)
    \/ Controls(HistLimits) /\ \E w \in watches : PositionError(w)
    \/ SimulateLocation(HistLimits)
    \/ Controls(HistLimits) /\ ToggleHistory
    \/ Controls(HistLimits) /\ ClearLocationHistory
    \/ MapHistoryEffect

SpecHist == Init /\ [][NextHist]_vars

\* The feed: messages and positions over a session that connects and disconnects
NextFeed ==
    \/ Connect("a@x", SessionLimits)
    \/ \E s \in SocketIds : SockOpen(s)
    \/ \E s \in SocketIds : SockClose(s)
    \/ Disconnect
    \/ \E s \in SocketIds, b \in Buses, ty \in MessageTypes : OnMessage(s, ty, b)
    \/ SimulateLocation(FeedLimits)
    \/ ToggleHistory
    \/ MapHistoryEffect
    \/ RenderStats

SpecFeed == Init /\ [][NextFeed]_vars

\* The history over a connection that is lost, retried and given up; every
\* socket event and call is a task of its own, run after the effects of the
\* render before it.
NextLife ==
    \/ EffectsFlushed /\ Connect("a@x", LifeConnLimits)
    \/ EffectsFlushed /\ \E s \in SocketIds : SockOpen(s)
    \/ EffectsFlushed /\ \E s \in SocketIds : SockFail(s, LifeConnLimits)
    \/ EffectsFlushed /\ \E s \in SocketIds : SockDrop(s, LifeConnLimits)
    \/ EffectsFlushed /\ \E t \in timers : TimerFire(t, LifeConnLimits)
    \/ EffectsFlushed /\ Disconnect
    \/ SimulateLocation(LifeLimits)
    \/ Controls(LifeLimits) /\ ToggleHistory
    \/ MapHistoryEffect

SpecLife == Init /\ [][NextLife]_vars

\* The geolocation watch: started, stopped, failing
NextTrack ==
    \/ Connect("a@x", SessionLimits)
    \/ \E s \in SocketIds : SockOpen(s)
    \/ Disconnect
    \/ StartLocationTracking(MaxTrackWatches)
    \/ StopLocationTracking
    \/ \E w \in watches : Position(w, TrackLimits)
    \/ \E w \in watches : PositionError(w)
    \/ MapHistoryEffect

SpecTrack == Init /\ [][NextTrack]_vars

\* The polling components
NextPoll ==
    \/ \E v \in Pollers : PollTick(v)
    \/ \E v \in Pollers, resp \in OneBusResponses : FetchSettle(v, resp)

SpecPoll == Init /\ [][NextPoll]_vars

\* The maps: their inputs change and their auto-fit effects run
NextFit ==
    \/ \E v \in MapVariants : Mount(v)
    \/ AutoFit
    \/ FitFlushed /\ \E bs \in BusList : SetBuses(bs)
    \/ FitFlushed /\ PollTick("realTimeBusLocations")
    \/ FitFlushed /\ \E resp \in Responses : FetchSettle("realTimeBusLocations", resp)
    \/ FitFlushed /\ SimulateLocation(FitLimits)
    \/ FitFlushed /\ MapHistoryEffect

SpecFit == Init /\ [][NextFit]_vars

\* The bus list is shown until a map is mounted; each renders the buses
NextMark ==
    \/ \E v \in MapVariants : Mount(v)
    \/ \E bs \in BusList : SetBuses(bs)
    \/ \E tm \in [FleetIds -> TerminalPositions \cup {Absent}] : SetTerminals(tm)
    \/ fitBy = "none" /\ PollTick("realTimeLocations")
    \/ fitBy = "none" /\ \E resp \in OneBusResponses : FetchSettle("realTimeLocations", resp)
    \/ fitBy = "polling" /\ PollTick("realTimeBusLocations")
    \/ fitBy = "polling" /\ \E resp \in OneBusResponses : FetchSettle("realTimeBusLocations", resp)

SpecMark == Init /\ [][NextMark]_vars

\* The operator's trail: positions, toggles, clears and renders
NextTrail ==
    \/ SimulateLocation(TrailLimits)
    \/ ToggleHistory
    \/ ClearLocationHistory
    \/ MapHistoryEffect
    \/ Rerender

SpecTrail == Init /\ [][NextTrail]_vars

\* One identity, connects, disconnects, clean and unclean closures: the count
\* of attempts to its limit
NextAttempts ==
    \/ Connect("a@x", AttemptLimits)
    \/ \E s \in SocketIds : SockOpen(s)
    \/ \E s \in SocketIds : SockClosing(s)
    \/ \E s \in SocketIds : SockFail(s, AttemptLimits)
    \/ \E s \in SocketIds : SockDrop(s, AttemptLimits)
    \/ \E s \in SocketIds : SockClose(s)
    \/ \E t \in timers : TimerFire(t, AttemptLimits)
    \/ Disconnect

SpecAttempts == Init /\ [][NextAttempts]_vars

\* Polls that overlap
NextOverlap ==
    \/ \E v \in {"realTimeBusLocations", "buses"} : StartPoll(v, MaxOverlap)
    \/ \E v \in {"realTimeBusLocations", "buses"}, resp \in Responses : FetchSettle(v, resp)

SpecOverlap == Init /\ [][NextOverlap]_vars

\* Subscribers come and go while statuses and messages are delivered
NextSub ==
    \/ Connect("a@x", SessionLimits)
    \/ \E s \in SocketIds : SockOpen(s)
    \/ \E s \in SocketIds : SockClose(s)
    \/ Disconnect
    \/ \E s \in SocketIds, b \in Buses, ty \in MessageTypes : OnMessage(s, ty, b)
    \/ \E h \in Listeners : SubscribeMessage(h)
    \/ \E h \in Listeners : SubscribeStatus(h)
    \/ \E h \in Listeners : UnsubscribeMessage(h)
    \/ \E h \in Listeners : UnsubscribeStatus(h)
    \/ \E h \in Listeners, target \in Listeners : Arm(h, target)

SpecSub == Init /\ [][NextSub]_vars

(***************************************************************************)
(* Properties                                                              *)
(***************************************************************************)
LastN(s, n) == SubSeq(s, Len(s) - Min(n, Len(s)) + 1, Len(s))

Seconds(n) == 1000 * n

\* The delays of the specification, attempt 1 to 10
BackoffTable ==
    <<Seconds(1), Seconds(2), Seconds(4), Seconds(8), Seconds(16),
      Seconds(30), Seconds(30), Seconds(30), Seconds(30), Seconds(30)>>

UncleanOps == {"fail", "failAttempt", "drop"}

\* C1: counted from reconnectAttempts = 0 with no open in between, the n-th
\* unclean closure (n <= 10) schedules a retry after the n-th delay of
\* 1, 2, 4, 8, 16, 30, 30, 30, 30, 30 seconds, and from the eleventh on an
\* unclean closure schedules nothing and reports the status 'error'.
C1_BackoffSequence ==
    /\ uncleanRun <= 10 =>
          /\ reconnectAttempts = uncleanRun
          /\ delayLog = SubSeq(BackoffTable, 1, uncleanRun)
    /\ (uncleanRun \in 1 .. 10 /\ lastOp \in UncleanOps) =>
          scheduled = <<BackoffTable[uncleanRun]>>
    /\ (uncleanRun >= 11 /\ lastOp \in UncleanOps) =>
          /\ scheduled = <<>>
          /\ delayLog = BackoffTable
          /\ connectionStatus.status = "error"

\* The eleventh unclean closure in a row has just been handled
C1_Witness ==
    /\ uncleanRun = 11
    /\ lastOp \in UncleanOps
    /\ delayLog = BackoffTable
    /\ connectionStatus.status = "error"

\* C2: once disconnect() has been called and until connect() is called again,
\* no reconnect timer is pending and no timer starts a connection attempt.
C2_DisconnectCancelsReconnect ==
    sinceDisconnect =>
        /\ timers = {}
        /\ lastOp = "timer" => outcome = "none"

\* C3: neither history ever holds more than 50 entries, and each is exactly the
\* last min(n, 50) of the n samples appended to it, in the order appended.
C3_HistoryIsLastFifty ==
    /\ \A e \in Entities : Len(locationHistoryRef[e]) <= 50 /\ Len(mapHistoryRef[e]) <= 50
    /\ locationHistoryRef["current_employee"] = LastN(appendedCtx, 50)
    /\ mapHistoryRef["current_employee"] = LastN(appendedMap, 50)

\* Both histories have evicted entries, the provider's last by the watch callback
C3_Witness ==
    /\ Len(appendedCtx) > 50
    /\ Len(appendedMap) > 50
    /\ Len(locationHistoryRef["current_employee"]) = 50
    /\ lastOp = "position"

\* C4: when the handshake of a socket completes, the status becomes 'connected',
\* reconnectAttempts becomes 0 and exactly one message is sent, the registration
\* of the identity the attempt was started with, on the socket that opened.
C4_OpenRegisters ==
    [][\A s \in SocketIds :
          (sock[s].readyState = "CONNECTING" /\ sock'[s].readyState = "OPEN") =>
              /\ connectionStatus'.status = "connected"
              /\ reconnectAttempts' = 0
              /\ transmitted' = <<[sock |-> s, type |-> "employee_connected",
                                   email |-> sock[s].email]>>]_vars

\* C5: at most one socket of the service is connecting or open.
C5_OneTransport ==
    Cardinality({s \in SocketIds : sock[s].readyState \in {"CONNECTING", "OPEN"}}) <= 1

\* C6: send(event) transmits the event exactly when the reported status is
\* 'connected', and never raises.
C6_SendIffConnected ==
    lastOp = "send" =>
        /\ (transmitted # <<>>) <=> (connectionStatus.status = "connected")
        /\ ~raised

\* C6 as the code has it: send(event) transmits the event, once and on the held
\* socket, exactly when the held socket is open (isConnected()), whatever status
\* was last reported; otherwise it transmits nothing; and it never raises.
C6_SendIffOpen ==
    lastOp = "send" =>
        /\ IF ws # 0 /\ sock[ws].readyState = "OPEN"
           THEN transmitted = <<[sock |-> ws, type |-> "event", email |-> NoEmail]>>
           ELSE transmitted = <<>>
        /\ ~raised

\* send() has just been dropped on a held socket that is closing while the
\* reported status is still 'connected'
C6_Witness ==
    /\ lastOp = "send"
    /\ ws # 0 /\ sock[ws].readyState = "CLOSING"
    /\ connectionStatus.status = "connected"
    /\ transmitted = <<>>

\* C7: connect() called while a socket of the service is still connecting is
\* rejected and changes nothing.
C7_ConnectInProgressRejected ==
    [][(lastOp' = "connect" /\ \E s \in SocketIds : sock[s].readyState = "CONNECTING") =>
          /\ outcome' = "rejected"
          /\ sock' = sock /\ ws' = ws
          /\ employeeEmail' = employeeEmail
          /\ connectionStatus' = connectionStatus
          /\ reconnectAttempts' = reconnectAttempts]_vars

\* C8: after disconnect() no socket is held, the identity is cleared and the
\* status is 'disconnected'; and from every state disconnect() run twice ends
\* in the state disconnect() run once ends in.
C8_DisconnectIdempotent ==
    /\ lastOp = "disconnect" =>
          /\ ws = 0
          /\ employeeEmail = NoEmail
          /\ providerEmail = NoEmail
          /\ connectionStatus.status = "disconnected"
    /\ disconnect(Begin(disconnect(Begin(Cur)))) = disconnect(Begin(Cur))

\* disconnect() has just dropped a socket it held
C8_Witness ==
    /\ lastOp = "disconnect"
    /\ ws = 0
    /\ \E s \in SocketIds : sock[s].readyState = "CLOSING"

\* C9: when a connecting socket fails, the status 'error' is reported with a
\* message, then the attempt is counted and the retry scheduled after
\* min(1s * 2^(attempt-1), 30s) under the backoff status - or, with 10 attempts
\* made, nothing is scheduled and the status stays 'error'; nothing is raised.
C9_FailureTriggersReconnect ==
    [][\A s \in SocketIds :
          (sock[s].readyState = "CONNECTING" /\ sock'[s].readyState = "CLOSED") =>
              /\ Len(emitted') = 2
              /\ emitted'[1].status = "error"
              /\ emitted'[1].message.text = "WebSocket connection error"
              /\ ~raised'
              /\ IF reconnectAttempts < 10
                 THEN /\ reconnectAttempts' = reconnectAttempts + 1
                      /\ scheduled' = <<Min(Seconds(1) * 2 ^ reconnectAttempts, Seconds(30))>>
                      /\ emitted'[2].status = "disconnected"
                      /\ emitted'[2].message.attempt = reconnectAttempts + 1
                 ELSE /\ reconnectAttempts' = reconnectAttempts
                      /\ scheduled' = <<>>
                      /\ connectionStatus'.status = "error"]_vars

\* A connecting socket has just failed and a retry is pending
C9_Witness ==
    /\ lastOp = "failAttempt"
    /\ Len(emitted) = 2 /\ emitted[1].status = "error"
    /\ scheduled # <<>>
    /\ timers # {}

\* C10: every enhanced_location_update delivered for a bus is in that bus's
\* history, in arrival order, the last one being its latest sample.
C10_UpdatesRecorded ==
    \A b \in Buses : locationHistoryRef[b] = LastN(received[b], 50)

\* C11: once a position has been produced for the operator's device,
\* currentLocation is the last position produced, whatever happened since.
C11_LatestIsLastRecorded ==
    clock > 0 => currentLocation = Location(clock)

ConnectionOps ==
    {"connect", "open", "closing", "fail", "failAttempt", "drop", "close", "timer", "disconnect"}

\* C12: a connection step (connect, open, closure, retry timer, disconnect)
\* leaves the provider's history and the map's history as they were.
C12_LifecycleKeepsHistory ==
    [][(lastOp' \in ConnectionOps /\ effectDeps' = effectDeps) =>
          /\ locationHistoryRef' = locationHistoryRef
          /\ mapHistoryRef' = mapHistoryRef]_vars

\* The retry timer has just started a new attempt with samples in both histories
C12_Witness ==
    /\ lastOp = "timer" /\ outcome = "pending"
    /\ reconnectAttempts >= 1
    /\ Len(locationHistoryRef["current_employee"]) >= 1
    /\ Len(mapHistoryRef["current_employee"]) >= 1

\* The number of calls of handler h for event e among calls
CallCount(calls, h, e) ==
    Cardinality({i \in 1 .. Len(calls) : calls[i] = [handler |-> h, event |-> e]})

\* C13: a message that does not parse reaches no handler, leaves the socket,
\* the status, reconnectAttempts and the subscriptions as they were and raises
\* nothing; and the well-formed message after it is delivered once to every
\* handler subscribed (and not unsubscribed by the end of that delivery).
C13_MalformedDropped ==
    [][/\ lastOp' = "malformed" =>
             /\ invoked' = <<>> /\ ~raised'
             /\ sock' = sock /\ ws' = ws
             /\ connectionStatus' = connectionStatus /\ emitted' = <<>>
             /\ reconnectAttempts' = reconnectAttempts
             /\ messageHandlers' = messageHandlers /\ statusHandlers' = statusHandlers
       /\ (lastOp = "malformed" /\ lastOp' = "message") =>
             \A h \in Range(messageHandlers) \cap Range(messageHandlers') :
                 CallCount(invoked', h, 0) = 1]_vars

\* C14: in every delivery each handler that is subscribed before it and still
\* subscribed after it is called exactly once for the message, or for each
\* status of the step, and no handler is called that was not subscribed.
C14_FanOut ==
    [][/\ lastOp' = "message" =>
             /\ \A h \in Range(messageHandlers) \cap Range(messageHandlers') :
                    CallCount(invoked', h, 0) = 1
             /\ \A c \in Range(invoked') : c.handler \in Range(messageHandlers)
       /\ lastOp' # "message" =>
             /\ \A e \in 1 .. Len(emitted') :
                    \A h \in Range(statusHandlers) \cap Range(statusHandlers') :
                        CallCount(invoked', h, e) = 1
             /\ \A c \in Range(invoked') : c.handler \in Range(statusHandlers)]_vars

\* C15: at most one geolocation watch is registered, and none right after
\* stopLocationTracking() or disconnect().
C15_OneWatch ==
    /\ Cardinality(watches) <= 1
    /\ lastOp \in {"stopTracking", "disconnect"} => watches = {}

\* C16: the error callback leaves isLocationTracking false, and no position
\* callback runs after it before startLocationTracking() is called again.
C16_ErrorStopsTracking ==
    [][/\ lastOp' = "positionError" => ~isLocationTracking'
       /\ ~(lastOp = "positionError" /\ lastOp' = "position")]_vars

\* C17: a poll that fails (non-OK response or network error) leaves the polled
\* positions of every component as they were and its interval registered.
C17_FailedPollKeepsPositions ==
    [][lastOp' = "fetchFailed" => (polled' = polled /\ interval' = interval)]_vars

\* A poll of BusMapTest has just failed with positions known to it and to the map
C17_Witness ==
    /\ lastOp = "fetchFailed"
    /\ fetchError
    /\ polled["buses"]["BUS-001"] # Absent
    /\ polled["realTimeBusLocations"]["BUS-001"] # Absent

\* C18: the statistics, when rendered, count every bus heard from within the
\* last 5 minutes (every delivery of the model falls within that window).
C18_HeardBusesCounted ==
    lastOp = "stats" =>
        \A b \in Buses : received[b] # <<>> => (stats.kind = "shown" /\ b \in stats.active)

\* The positions an auto-fit of variant v is to frame: the resolved positions
\* of the visible buses (the polled one, where the variant polls and has one,
\* else the stored one) and the operator's position where the variant shows
\* it, without those equal to (0,0)
Resolved(v, bus) ==
    IF v = "polling" /\ polled["realTimeBusLocations"][bus.id] # Absent
    THEN polled["realTimeBusLocations"][bus.id]
    ELSE bus.current_location
ValidPositions(v) ==
    SelectSeq([i \in 1 .. Len(buses) |-> Resolved(v, buses[i])]
                \o (IF v # "simple" /\ currentLocation # NoLocation
                    THEN <<Point(currentLocation)>> ELSE <<>>),
              LAMBDA p : p # Absent /\ p # Origin)

Contains(vp, p) ==
    vp.south <= p.lat /\ p.lat <= vp.north /\ vp.west <= p.lng /\ p.lng <= vp.east

\* C19: an auto-fit run centres the map at zoom 15 on the only valid position,
\* fits it to bounds containing every valid position when there are several,
\* and leaves the viewport unchanged when there is none.
C19_AutoFit ==
    [][lastOp' = "autofit" =>
         LET V == ValidPositions(fitBy)
         IN /\ Len(V) = 1 => viewport' = setView(V[1], 15)
            /\ Len(V) > 1 => /\ viewport'.kind = "bounds"
                             /\ \A i \in 1 .. Len(V) : Contains(viewport', V[i])
            /\ Len(V) = 0 => viewport' = viewport]_vars

\* C20: no auto-fit run of any map variant frames a position equal to (0,0).
C20_OriginNeverFramed ==
    lastOp = "autofit" => Origin \notin Range(framed)

\* The marker the resolution order gives the bus at place i of the mounted map:
\* live, else stored unless (0,0), else terminal, else the placeholder
Expected(i) ==
    LET bus == buses[i]
        live == IF fitBy = "polling" THEN polled["realTimeBusLocations"][bus.id] ELSE Absent
    IN IF live # Absent THEN [source |-> "live", pos |-> live, dlat |-> 0, dlng |-> 0]
       ELSE IF bus.current_location \notin {Absent, Origin}
            THEN [source |-> "stored", pos |-> bus.current_location, dlat |-> 0, dlng |-> 0]
       ELSE IF terminals[bus.id] # Absent
            THEN [source |-> "terminal", pos |-> terminals[bus.id], dlat |-> 0, dlng |-> 0]
       ELSE [source |-> "placeholder", pos |-> Absent,
             dlat |-> Circle(i - 1, Len(buses)).dlat, dlng |-> Circle(i - 1, Len(buses)).dlng]

\* C21: every bus marker of the push map and of the polling map stands at the
\* first available of its live position, its stored position unless (0,0), its
\* terminal's position and the placeholder on the circle around the centre.
C21_MarkerResolution ==
    fitBy \in {"push", "polling"} =>
        \A i \in 1 .. Len(buses) :
            /\ Markers[i].source = Expected(i).source
            /\ Markers[i].pos = Expected(i).pos
            /\ Markers[i].dlat = Expected(i).dlat
            /\ Markers[i].dlng = Expected(i).dlng

\* C22: a marker of a map, and a location of the bus list, is labelled
\* real-time only when its position is the polled one.
C22_RealTimeOnlyLive ==
    /\ fitBy # "none" =>
          \A i \in 1 .. Len(buses) : Markers[i].badge => Markers[i].source = "live"
    /\ \A i \in 1 .. Len(buses) : ListLocations[i].badge => ListLocations[i].source = "live"

\* The polling map shows one bus at its polled position with the label and
\* another at its stored position without, and so does the bus list
C22_Witness ==
    /\ fitBy = "polling"
    /\ Len(buses) = 2
    /\ Markers[1].badge /\ Markers[1].source = "live"
    /\ ~Markers[2].badge /\ Markers[2].source = "stored"
    /\ ListLocations[1].badge
    /\ ~ListLocations[2].badge /\ ListLocations[2].source = "stored"

\* C23: a rendered history of length 0 or 1 draws no segment, one of length 2
\* to 9 draws one segment at the configured opacity, one of length 10 or more
\* draws two, the older at 30% of the configured opacity, the recent at full.
C23_TrailSegments ==
    LET n == Len(trail.locations)
        seg == trail.segments
    IN /\ n < 2 => seg = <<>>
       /\ (2 <= n /\ n <= 9) => (Len(seg) = 1 /\ seg[1].opacity = TrailOpacity)
       /\ n >= 10 => /\ Len(seg) = 2
                      /\ 10 * seg[1].opacity = 3 * TrailOpacity
                      /\ seg[2].opacity = TrailOpacity
                      /\ seg[1].positions \o seg[2].positions
                            = [i \in 1 .. n |-> Point(trail.locations[i])]

\* A trail of 10 or more locations is on screen
C23_Witness ==
    /\ Len(trail.locations) >= 10
    /\ Len(trail.segments) = 2

\* C24: the status last reported is 'connected' exactly when the socket the
\* service holds is open, and an event of a socket the service no longer
\* holds never changes the reported status.
C24_StatusMatchesTransport ==
    [][/\ (connectionStatus'.status = "connected") <=> (ws' # 0 /\ sock'[ws'].readyState = "OPEN")
       /\ (/\ lastOp' \in {"open", "failAttempt", "fail", "drop", "close"}
           /\ \E s \in SocketIds : s # ws /\ sock'[s] # sock[s])
             => connectionStatus' = connectionStatus]_vars

\* C25: the first connect() after a disconnect() starts a new attempt.
C25_ConnectAfterDisconnect ==
    [][(lastOp' = "connect" /\ sinceDisconnect) => outcome' = "pending"]_vars

\* C26: reconnectAttempts stays within 0..10; it grows by one with each unclean
\* closure that schedules a retry, becomes 0 only with an open, and is kept by
\* disconnect(), by a clean closure and by a rejected connect(); each status
\* emitted carries the value of the moment.
C26_AttemptsCounted ==
    [][/\ reconnectAttempts' \in 0 .. maxReconnectAttempts
       /\ (lastOp' \in UncleanOps /\ scheduled' # <<>>) => reconnectAttempts' = reconnectAttempts + 1
       /\ lastOp' = "open" => reconnectAttempts' = 0
       /\ reconnectAttempts' # reconnectAttempts =>
             \/ lastOp' = "open"
             \/ lastOp' \in UncleanOps /\ scheduled' # <<>>
       /\ lastOp' \in {"disconnect", "close"} => reconnectAttempts' = reconnectAttempts
       /\ (lastOp' = "connect" /\ outcome' = "rejected") => reconnectAttempts' = reconnectAttempts
       /\ \A i \in 1 .. Len(emitted') :
             /\ emitted'[i].reconnectAttempts \in {reconnectAttempts, reconnectAttempts'}
             /\ i = Len(emitted') => emitted'[i].reconnectAttempts = reconnectAttempts']_vars

\* The tenth retry has been scheduled, and the closure after it schedules none
C26_Witness ==
    /\ reconnectAttempts = maxReconnectAttempts
    /\ lastOp \in UncleanOps
    /\ scheduled = <<>>
    /\ emitted # <<>>

\* C27: at most one reconnect timer is pending, and a pending timer is the one
\* whose handle the service holds.
C27_OneReconnectTimer ==
    /\ Cardinality(timers) <= 1
    /\ \A t \in timers : t.id = reconnectTimeout

\* C28: when the provider shows an identity and the socket held is open, that
\* identity is the one registered on the socket and the one stored for the
\* automatic reconnects.
C28_IdentityRegistered ==
    (providerEmail # NoEmail /\ ws # 0 /\ sock[ws].readyState = "OPEN") =>
        /\ sock[ws].email = providerEmail
        /\ employeeEmail = providerEmail

\* C29: when the most recently started fetch of a component has returned its
\* positions, a fetch started before it that settles later does not change the
\* positions shown.
C29_NewestPollWins ==
    [][\A v \in Pollers :
          (newest[v] = "ok" /\ inflight'[v] < inflight[v]) => polled'[v] = polled[v]]_vars

\* C30: the history the map has rendered as the operator's trail is the
\* provider's history of the operator's device, and right after
\* clearLocationHistory the rendered trail is empty.
C30_TrailIsProviderHistory ==
    /\ (EffectsFlushed /\ showLocationHistory /\ currentLocation # NoLocation) =>
          LET history == locationHistoryRef["current_employee"]
          IN trail.locations = IF Len(history) >= 2 THEN history ELSE <<>>
    /\ lastOp = "clear" => trail.locations = <<>>

====
